---- MODULE Spec2Model ----
(***************************************************************************)
(* Healthcare Monitoring AI Agent (src/streamlit_app.py).                  *)
(*                                                                         *)
(* The store is the SQLite database seen through the module-level          *)
(* connection `conn`: the tables medications, health_metrics and goals.    *)
(* Every Streamlit interaction (one button, one widget edit) is one        *)
(* action.  Text is a sequence of tokens, a token being either the blank   *)
(* " " or a word; a calendar date text "YYYY-MM-DD" is the triple          *)
(* <<y, m, d>>; a pandas Timestamp is the proleptic Gregorian ordinal of   *)
(* its day.  Percentages and ratios are exact rationals [num, den].        *)
(***************************************************************************)
EXTENDS Integers, Sequences, FiniteSets

VARIABLES
    medications,     \* table medications, in insertion (id) order
    health_metrics,  \* table health_metrics as `conn` sees it, in id order
    pending,         \* trailing rows of health_metrics inserted but not committed
    in_transaction,  \* the connection of an earlier run has a transaction open
    goals,           \* table goals: its rows
    active_person,   \* sidebar selectbox "Active person"
    today,           \* the current calendar date, as date text
    goal_inputs,     \* the two number inputs of the Goals tab: <<w_target, d_target>>
    csv_file,        \* the file in the uploader "CSV file"
    download,        \* metrics.csv: as the download button of this run offers it,
                     \* and as the user last saved it
    last             \* what the last interaction did and reported

vars == <<medications, health_metrics, pending, in_transaction, goals, active_person,
          today, goal_inputs, csv_file, download, last>>

-----------------------------------------------------------------------------
(* Bounds of the model *)

MaxMeds == 3
MaxMetrics == 2
MaxStore == 4
MaxRows == 2
MaxDays == 1

-----------------------------------------------------------------------------
(* Text *)

Blank == " "
NULL == <<>>

Self == <<"Self">>
Mom == <<"Mom">>

RECURSIVE LStrip(_)
LStrip(t) ==
    IF t # <<>> /\ Head(t) = Blank THEN LStrip(Tail(t)) ELSE t

RECURSIVE RStrip(_)
RStrip(t) ==
    IF t # <<>> /\ t[Len(t)] = Blank THEN RStrip(SubSeq(t, 1, Len(t) - 1)) ELSE t

\* str.strip()
Strip(t) == RStrip(LStrip(t))

\* Python truthiness of a str
Truthy(t) == t # <<>>

\* a or b, on str
OrElse(a, b) == IF Truthy(a) THEN a ELSE b

-----------------------------------------------------------------------------
(* Calendar dates: datetime.date and pandas.Timestamp *)

\* the years the model's dates lie in
Years == 2024..2026

NaTText == <<0, 0, 0>>   \* the text "NaT"
NanText == <<0, 0, 1>>   \* the text "nan"
NaT == 0                 \* pandas.NaT: no day has ordinal 0
ParserError == 0 - 1     \* the exception pd.to_datetime raises, in place of its value

IsLeap(y) == (y % 4 = 0) /\ ((y % 100 # 0) \/ (y % 400 = 0))

DaysInMonth(y, m) ==
    IF m = 2 THEN (IF IsLeap(y) THEN 29 ELSE 28)
    ELSE IF m \in {4, 6, 9, 11} THEN 30 ELSE 31

\* days before January 1st of year y
DaysBeforeYear(y) ==
    (y - 1) * 365 + ((y - 1) \div 4) - ((y - 1) \div 100) + ((y - 1) \div 400)

RECURSIVE DaysBeforeMonth(_, _)
DaysBeforeMonth(y, m) ==
    IF m = 1 THEN 0 ELSE DaysBeforeMonth(y, m - 1) + DaysInMonth(y, m - 1)

\* date.toordinal() of the date whose ISO text is d
ToOrdinal(d) == DaysBeforeYear(d[1]) + DaysBeforeMonth(d[1], d[2]) + d[3]

\* date.fromordinal(n).isoformat()
FromOrdinal(n) ==
    LET y == CHOOSE yy \in Years :
                 DaysBeforeYear(yy) < n /\ n <= DaysBeforeYear(yy + 1)
        r == n - DaysBeforeYear(y)
        m == CHOOSE mm \in 1..12 :
                 DaysBeforeMonth(y, mm) < r
                 /\ r <= DaysBeforeMonth(y, mm) + DaysInMonth(y, mm)
    IN  <<y, m, r - DaysBeforeMonth(y, m)>>

\* the text is "YYYY-MM-DD" with the numbers of a calendar date
IsDateText(text) ==
    /\ text[1] >= 1
    /\ text[2] \in 1..12
    /\ text[3] \in 1..DaysInMonth(text[1], text[2])

\* the texts pd.to_datetime reads as NaT: "NaT", "nan" and the empty cell
IsNaTText(text) == text = NaTText \/ text = NanText \/ text = <<>>

\* the texts pd.to_datetime raises on: neither NaT nor a date
Unparseable(text) == ~ IsNaTText(text) /\ ~ IsDateText(text)

\* pd.to_datetime / parse_dates on one date text
ToDatetime(text) ==
    IF IsNaTText(text) THEN NaT
    ELSE IF Unparseable(text) THEN ParserError
    ELSE ToOrdinal(text)

\* pd.to_datetime on the date column of a frame raises when one of its texts does
ToDatetimeRaises(df) == \E i \in 1..Len(df) : Unparseable(df[i].date)

\* Timestamp.date().isoformat(), and str(Timestamp)[:10]
IsoFormat(ts) == IF ts = NaT THEN NaTText ELSE FromOrdinal(ts)

\* Timestamp.isocalendar().week, for a Timestamp that is not NaT
IsoWeek(ts) ==
    LET wd == (ts - 1) % 7          \* Monday = 0
        thu == ts - wd + 3          \* the Thursday of the same ISO week
        y == CHOOSE yy \in Years :
                 DaysBeforeYear(yy) < thu /\ thu <= DaysBeforeYear(yy + 1)
    IN  ((thu - DaysBeforeYear(y) - 1) \div 7) + 1

\* where a date text sorts by its first character: a digit, "N", "n"
FirstCharRank(a) == IF a = NanText THEN 2 ELSE IF a = NaTText THEN 1 ELSE 0

\* text order of two date texts (the ORDER BY date of the queries): "NaT" sorts
\* after every digit, "nan" after "NaT"
DateLeq(a, b) ==
    IF FirstCharRank(a) # FirstCharRank(b) THEN FirstCharRank(a) < FirstCharRank(b)
    ELSE \/ FirstCharRank(a) > 0
         \/ a[1] < b[1]
         \/ a[1] = b[1] /\ a[2] < b[2]
         \/ a[1] = b[1] /\ a[2] = b[2] /\ a[3] <= b[3]

-----------------------------------------------------------------------------
(* Sequences *)

RECURSIVE SumSeq(_)
SumSeq(s) == IF s = <<>> THEN 0 ELSE Head(s) + SumSeq(Tail(s))

Column(df, col) == [i \in 1..Len(df) |-> df[i][col]]

RECURSIVE InsertByDate(_, _)
InsertByDate(sorted, r) ==
    IF sorted = <<>> THEN <<r>>
    ELSE IF DateLeq(sorted[Len(sorted)].date, r.date) THEN Append(sorted, r)
    ELSE Append(InsertByDate(SubSeq(sorted, 1, Len(sorted) - 1), r),
                sorted[Len(sorted)])

RECURSIVE OrderByDate(_)
OrderByDate(rows) ==
    IF rows = <<>> THEN <<>>
    ELSE InsertByDate(OrderByDate(SubSeq(rows, 1, Len(rows) - 1)), rows[Len(rows)])

-----------------------------------------------------------------------------
(* Rationals: the floats of the program *)

Rat(n, d) == [num |-> n, den |-> d]
RatLt(a, b) == a.num * b.den < b.num * a.den
RatEq(a, b) == a.num * b.den = b.num * a.den
RatLeq(a, b) == a.num * b.den <= b.num * a.den

\* 2^s modulo m
RECURSIVE Pow2Mod(_, _)
Pow2Mod(s, m) == IF s = 0 THEN 1 % m ELSE (2 * Pow2Mod(s - 1, m)) % m

RECURSIVE Pow2(_)
Pow2(k) == IF k = 0 THEN 1 ELSE 2 * Pow2(k - 1)

\* the binary exponent of the positive fraction n/d: the e with 2^e <= n/d < 2^(e+1)
RECURSIVE ExponentOf(_, _)
ExponentOf(n, d) ==
    IF n < d THEN ExponentOf(2 * n, d) - 1
    ELSE IF n >= 2 * d THEN ExponentOf(n, 2 * d) + 1 ELSE 0

RECURSIVE GCD(_, _)
GCD(m, n) == IF n = 0 THEN m ELSE GCD(n, m % n)

\* x = 100*taken/total lies exactly half way between two tenths, q/10 and (q+1)/10.
\* The program holds the double pct = (taken / total) * 100 instead: the quotient
\* rounded to 53 bits, times 100, rounded again.  The side of x on which pct lies
\* (-1 below, 0 on it, 1 above), computed on the remainders of the two roundings.
HalfwaySide(x, q) ==
    LET g == GCD(x.num, 100 * x.den)
        a == x.num \div g
        b == (100 * x.den) \div g        \* taken / total = a / b, in lowest terms
        n == 2 * q + 1                   \* x = n / 20
        s == 52 - ExponentOf(a, b)       \* 2^52 <= (a/b) * 2^s < 2^53
        t == 52 - ExponentOf(n, 20)      \* 2^52 <= x * 2^t < 2^53
        k == s - t
        r2 == (a * Pow2Mod(s, 2 * b)) % (2 * b)
        r == r2 % b                      \* a * 2^s = m * b + r
        d == IF 2 * r < b \/ (2 * r = b /\ r2 < b) THEN 0 - r ELSE b - r
                                         \* fl(a/b) = (a * 2^s + d) / (b * 2^s)
        rho2 == (n * Pow2Mod(t, 40)) % 40
        rho == rho2 % 20                 \* x * 2^t = M + rho/20
        below == rho = 0 /\ n = 5 /\ d < 0  \* under 0.25 the doubles lie twice as dense
        N == (rho * b * Pow2(k) + 2000 * d) * (IF below THEN 2 ELSE 1)
        D == 20 * b * Pow2(k)            \* 100 * fl(a/b) * 2^t = M + N/D
        lo == N \div D
        fr == N % D
        even == IF below THEN lo % 2 = 0 ELSE (rho2 \div 20 + lo) % 2 = 0
        R == IF 2 * fr < D \/ (2 * fr = D /\ even) THEN lo ELSE lo + 1
        side == (IF below THEN 10 ELSE 20) * R - rho
    IN  IF side > 0 THEN 1 ELSE IF side < 0 THEN 0 - 1 ELSE 0

\* f"{pct:.1f}", in tenths, of the double pct whose exact value is x: the nearest
\* tenth of pct, and the even one when pct lies exactly half way
Format1(x) ==
    LET q == (10 * x.num) \div x.den
        r == (10 * x.num) % x.den
        side == IF 2 * r # x.den THEN (IF 2 * r > x.den THEN 1 ELSE 0 - 1)
                ELSE HalfwaySide(x, q)
    IN  IF side > 0 \/ (side = 0 /\ q % 2 = 1) THEN q + 1 ELSE q

-----------------------------------------------------------------------------
(* Helpers: DB access and insights *)

DefaultWeeklySteps == 35000
DefaultDailyCalories == 2200

PersonsOf(table) == {table[i].person : i \in 1..Len(table)}

\* get_people(): the distinct persons of both tables, and always Self
get_people == {Self} \cup PersonsOf(medications) \cup PersonsOf(health_metrics)

\* get_goals(): the row with id 1, or the defaults when there is none
get_goals ==
    IF \E i \in 1..Len(goals) : goals[i].id = 1
    THEN LET row == goals[CHOOSE i \in 1..Len(goals) : goals[i].id = 1]
         IN  <<row.weekly_steps_target, row.daily_calories_target>>
    ELSE <<DefaultWeeklySteps, DefaultDailyCalories>>

\* variant of SelectTaken: the WHERE person=? is dropped
SelectTakenAnyPerson(meds, person) == Column(meds, "taken")

\* SELECT taken FROM medications [WHERE person=?]; a falsy person selects all
SelectTaken(meds, person) ==
    IF Truthy(person)
    THEN Column(SelectSeq(meds, LAMBDA r : r.person = person), "taken")
    ELSE Column(meds, "taken")

\* medication_adherence(person) -> (taken_count, total_count, adherence_percent)
AdherenceOf(meds, person) ==
    LET df == SelectTaken(meds, person)
        total == Len(df)
        taken == SumSeq(df)
    IN  IF df = <<>> THEN <<0, 0, Rat(0, 1)>>
        ELSE <<taken, total, IF total > 0 THEN Rat(taken * 100, total) ELSE Rat(0, 1)>>

medication_adherence(person) == AdherenceOf(medications, person)

\* SELECT * FROM health_metrics [WHERE person=?] ORDER BY date, on the rows a
\* connection sees
LoadMetrics(table, person) ==
    IF Truthy(person)
    THEN OrderByDate(SelectSeq(table, LAMBDA r : r.person = person))
    ELSE OrderByDate(table)

\* load_metrics(person)
load_metrics(person) == LoadMetrics(health_metrics, person)

\* df[df["date"] >= today.normalize() - 6 days]; a comparison with NaT is False
Last7(df) ==
    SelectSeq(df, LAMBDA r : ToDatetime(r.date) # NaT
                             /\ ToDatetime(r.date) >= ToOrdinal(today) - 6)

\* int(last7[col].mean()) if not last7.empty else 0
Last7Avg(df, col) ==
    LET last7 == Last7(df)
    IN  IF last7 # <<>> THEN SumSeq(Column(last7, col)) \div Len(last7) ELSE 0

\* variant of StepsBelow: <= for <
StepsBelowOrEqual(avg_steps, weekly_goal) == avg_steps * 35 <= weekly_goal * 4

\* the steps rule of generate_recommendations: avg_steps < (weekly_goal / 7) * 0.8
StepsBelow(avg_steps, weekly_goal) == avg_steps * 35 < weekly_goal * 4

\* variant of CaloriesExceed: >= for >
CaloriesReach(avg_cals, daily_cal_goal) == avg_cals * 10 >= daily_cal_goal * 11

\* the calories rule of generate_recommendations: avg_cals > daily_cal_goal * 1.1
CaloriesExceed(avg_cals, daily_cal_goal) == avg_cals * 10 > daily_cal_goal * 11

AdherenceThreshold == 80

\* the medication message of generate_recommendations
MedicationRec(person) ==
    LET a == medication_adherence(person)
    IN  IF a[2] = 0 THEN <<"no_schedule", person>>
        ELSE IF RatLt(a[3], Rat(AdherenceThreshold, 1))
             THEN <<"set_reminders", person, Format1(a[3])>>
             ELSE <<"good_adherence", person, Format1(a[3])>>

\* generate_recommendations(person): the list of messages it returns, or the
\* exception of line 128, raised before any rule is reached
generate_recommendations(person) ==
    LET g == get_goals
        df == load_metrics(person)
        avg_steps == Last7Avg(df, "steps")
        avg_cals == Last7Avg(df, "calories")
        metricRecs ==
            IF df # <<>>
            THEN << IF StepsBelow(avg_steps, g[1])
                    THEN <<"steps_below", person>> ELSE <<"steps_meeting", person>>,
                    IF CaloriesExceed(avg_cals, g[2])
                    THEN <<"calories_exceed", person>> ELSE <<"calories_within", person>> >>
            ELSE <<>>
        recs == Append(metricRecs, MedicationRec(person))
    IN  IF df # <<>> /\ ToDatetimeRaises(df)
        THEN [raises |-> TRUE, recs |-> <<>>]
        ELSE [raises |-> FALSE,
              recs |-> IF recs = <<>> THEN << <<"not_enough_data">> >> ELSE recs]

\* Dashboard, "Steps (last 7 days)" and "Calories (last 7 days)", as a run draws
\* it: on its own connection, which sees the committed rows only, and before any
\* tab below it inserts; line 286 raises before either is shown
DashboardAvg(person, col) ==
    LET df_person ==
            LoadMetrics(SubSeq(health_metrics, 1, Len(health_metrics) - pending), person)
    IN  IF df_person = <<>> THEN 0
        ELSE IF ToDatetimeRaises(df_person) THEN ParserError
        ELSE Last7Avg(df_person, col)

\* Goals tab, "Goal Progress (for active person)": nothing is shown without
\* metrics, nor when line 618 raises
GoalProgress(person, w_target) ==
    LET dfm == load_metrics(person)
        dated == SelectSeq(dfm, LAMBDA r : ToDatetime(r.date) # NaT)
        weeks == {IsoWeek(ToDatetime(dated[i].date)) : i \in 1..Len(dated)}
        maxWeek == CHOOSE w \in weeks : \A v \in weeks : v <= w
        this_week == SelectSeq(dated, LAMBDA r : IsoWeek(ToDatetime(r.date)) = maxWeek)
        wk_steps == IF this_week # <<>> THEN SumSeq(Column(this_week, "steps")) ELSE 0
        denom == IF w_target > 1 THEN w_target ELSE 1
    IN  IF dfm = <<>> \/ ToDatetimeRaises(dfm)
        THEN [shown |-> FALSE, wk_steps |-> 0, ratio |-> Rat(0, 1)]
        ELSE [shown |-> TRUE, wk_steps |-> wk_steps,
              ratio |-> IF wk_steps >= denom THEN Rat(1, 1) ELSE Rat(wk_steps, denom)]

-----------------------------------------------------------------------------
(* Database initialisation *)

StartDay == <<2024, 12, 30>>

\* INSERT OR IGNORE INTO goals(id) VALUES (1): the column defaults fill the row
InsertOrIgnoreGoals(rows) ==
    IF \E i \in 1..Len(rows) : rows[i].id = 1 THEN rows
    ELSE Append(rows, [id |-> 1, weekly_steps_target |-> DefaultWeeklySteps,
                       daily_calories_target |-> DefaultDailyCalories])

\* AUTOINCREMENT: one more than the largest id of the table (rows are never deleted)
NextId(table) == IF table = <<>> THEN 1 ELSE table[Len(table)].id + 1

Report(op, error) == [op |-> op, error |-> error, missing |-> {}]

NoFile == [present |-> FALSE, rows |-> <<>>]

Init ==
    /\ medications = <<>>
    /\ health_metrics = <<>>
    /\ pending = 0
    /\ in_transaction = FALSE
    /\ goals = InsertOrIgnoreGoals(<<>>)
    /\ active_person = Self
    /\ today = StartDay
    /\ goal_inputs = get_goals
    /\ csv_file = NoFile
    /\ download = [offered |-> NoFile, saved |-> NoFile]
    /\ last = Report("init_db", FALSE)

(***************************************************************************)
(* Every interaction re-runs the script from its first line, and line 15   *)
(* opens a new connection: the run works on the committed rows only.  An   *)
(* import that raised after its first INSERT began left its transaction    *)
(* open on the connection of that run, with the rows it had inserted, if   *)
(* any.  Once that connection is closed the transaction is rolled back and *)
(* the run goes on; while it is still open it holds the write lock, and    *)
(* the INSERT of init_db (line 59) raises "database is locked": the run    *)
(* ends there.                                                             *)
(***************************************************************************)
Committed == SubSeq(health_metrics, 1, Len(health_metrics) - pending)

\* the rows of health_metrics a run starts on
ScriptStart == Committed

\* a download button is on the page only in the run of its export button
Withdrawn == [download EXCEPT !.offered = NoFile]

\* line 286: every run converts the dates of the active person's metric rows for
\* the dashboard, before any tab below it; when the conversion raises the run
\* ends there
DashboardRaises(person) ==
    \E i \in 1..(Len(health_metrics) - pending) :
        /\ health_metrics[i].person = person
        /\ Unparseable(health_metrics[i].date)

\* a run that gets past init_db and touches neither table after it
Rerun ==
    /\ health_metrics' = ScriptStart
    /\ pending' = 0
    /\ in_transaction' = FALSE
    /\ goals' = InsertOrIgnoreGoals(goals)
    /\ download' = Withdrawn

\* a run, of whatever interaction, while the connection of the failed import is
\* still open: init_db raises, nothing of the interaction is done, the
\* transaction and its uncommitted rows stay where they are
ScriptFails ==
    /\ in_transaction
    /\ download' = Withdrawn
    /\ last' = Report("database_locked", TRUE)
    /\ UNCHANGED <<medications, health_metrics, pending, in_transaction, goals,
                   active_person, today, goal_inputs, csv_file>>

\* a run, of whatever interaction with a tab, that gets past init_db and the
\* sidebar and ends in the dashboard: nothing of the interaction is done
ScriptRaises ==
    /\ DashboardRaises(active_person)
    /\ Rerun
    /\ last' = Report("to_datetime_raises", TRUE)
    /\ UNCHANGED <<medications, active_person, today, goal_inputs, csv_file>>

-----------------------------------------------------------------------------
(* Sidebar *)

\* the selectbox "Active person"; the run ends in the dashboard when a date of
\* the person picked does not parse
SelectPerson(p) ==
    /\ p \in get_people
    /\ p # active_person
    /\ Rerun
    /\ active_person' = p
    /\ last' = Report("select_person", DashboardRaises(p))
    /\ UNCHANGED <<medications, today, goal_inputs, csv_file>>

MetricRow(table, person, date, steps, calories) ==
    [id |-> NextId(table), person |-> person, date |-> date,
     steps |-> steps, calories |-> calories]

\* the button "Add person": a zero-valued metric row makes the person appear; the
\* sidebar comes before the dashboard, so the row is committed also in a run that
\* ends there
AddPerson(new_person) ==
    /\ Truthy(Strip(new_person))
    /\ Len(ScriptStart) < MaxMetrics
    /\ LET hm == ScriptStart
       IN  health_metrics' = Append(hm, MetricRow(hm, Strip(new_person), today, 0, 0))
    /\ pending' = 0
    /\ in_transaction' = FALSE
    /\ download' = Withdrawn
    /\ goals' = InsertOrIgnoreGoals(goals)
    /\ last' = Report("add_person", DashboardRaises(active_person))
    /\ UNCHANGED <<medications, active_person, today, goal_inputs, csv_file>>

-----------------------------------------------------------------------------
(* Tab 1: medication manager *)

MedicationRow(person_use, name, med_date, time_str, caregiver_email) ==
    [id |-> NextId(medications), person |-> person_use, name |-> Strip(name),
     date |-> med_date, time |-> Strip(time_str), taken |-> 0,
     caregiver_email |-> OrElse(Strip(caregiver_email), NULL)]

\* the test that guards the INSERT of "Add Medication"
MedicationInputOk(name, time_str) == Truthy(name) /\ Truthy(time_str)

\* the button "Add Medication"
AddMedication(name, med_date, time_str, med_person, caregiver_email) ==
    /\ ~ DashboardRaises(active_person)
    /\ Len(medications) < MaxMeds
    /\ LET person_use == OrElse(Strip(med_person), active_person)
       IN  IF MedicationInputOk(name, time_str)
           THEN /\ medications' = Append(medications,
                       MedicationRow(person_use, name, med_date, time_str, caregiver_email))
                /\ last' = Report("add_medication", FALSE)
           ELSE /\ medications' = medications
                /\ last' = Report("add_medication", TRUE)
    /\ Rerun
    /\ UNCHANGED <<active_person, today, goal_inputs, csv_file>>

\* variant of SetTaken: WHERE id>=? for WHERE id=?
SetTakenFrom(meds, med_id) ==
    [i \in 1..Len(meds) |->
        IF meds[i].id >= med_id THEN [meds[i] EXCEPT !.taken = 1] ELSE meds[i]]

\* UPDATE medications SET taken=1 WHERE id=?
SetTaken(meds, med_id) ==
    [i \in 1..Len(meds) |->
        IF meds[i].id = med_id THEN [meds[i] EXCEPT !.taken = 1] ELSE meds[i]]

\* the button "Mark as Taken"
MarkTaken(med_id) ==
    /\ ~ DashboardRaises(active_person)
    /\ medications' = SetTaken(medications, med_id)
    /\ last' = Report("mark_taken", FALSE)
    /\ Rerun
    /\ UNCHANGED <<active_person, today, goal_inputs, csv_file>>

\* variant of ClearTaken: the WHERE person=? is dropped
ClearTakenAnyPerson(meds, person) ==
    [i \in 1..Len(meds) |-> [meds[i] EXCEPT !.taken = 0]]

\* UPDATE medications SET taken=0 WHERE person=?
ClearTaken(meds, person) ==
    [i \in 1..Len(meds) |->
        IF meds[i].person = person THEN [meds[i] EXCEPT !.taken = 0] ELSE meds[i]]

\* the button "Reset All 'Taken' Flags for Active Person"
ResetTaken ==
    /\ ~ DashboardRaises(active_person)
    /\ medications' = ClearTaken(medications, active_person)
    /\ last' = Report("reset_taken", FALSE)
    /\ Rerun
    /\ UNCHANGED <<active_person, today, goal_inputs, csv_file>>

-----------------------------------------------------------------------------
(* Tab 2: health metrics *)

\* the button "Save Metrics"
SaveMetrics(date, steps, calories, person_for_metrics) ==
    /\ ~ DashboardRaises(active_person)
    /\ Len(ScriptStart) < MaxMetrics
    /\ LET hm == ScriptStart
           person_use == OrElse(Strip(person_for_metrics), active_person)
       IN  health_metrics' = Append(hm, MetricRow(hm, person_use, date, steps, calories))
    /\ pending' = 0
    /\ in_transaction' = FALSE
    /\ download' = Withdrawn
    /\ goals' = InsertOrIgnoreGoals(goals)
    /\ last' = Report("save_metrics", FALSE)
    /\ UNCHANGED <<medications, active_person, today, goal_inputs, csv_file>>

-----------------------------------------------------------------------------
(* Tab 4: goals *)

\* the number inputs "Weekly steps target" and "Daily calories target"
EditGoalInputs(w_target, d_target) ==
    /\ ~ DashboardRaises(active_person)
    /\ <<w_target, d_target>> # goal_inputs
    /\ goal_inputs' = <<w_target, d_target>>
    /\ Rerun
    /\ last' = Report("edit_goals", FALSE)
    /\ UNCHANGED <<medications, active_person, today, csv_file>>

\* UPDATE goals SET weekly_steps_target=?, daily_calories_target=? WHERE id=1
UpdateGoals(rows, w_target, d_target) ==
    [i \in 1..Len(rows) |->
        IF rows[i].id = 1
        THEN [rows[i] EXCEPT !.weekly_steps_target = w_target,
                             !.daily_calories_target = d_target]
        ELSE rows[i]]

\* the button "Save Goals"
SaveGoals ==
    /\ ~ DashboardRaises(active_person)
    /\ goals' = UpdateGoals(InsertOrIgnoreGoals(goals), goal_inputs[1], goal_inputs[2])
    /\ health_metrics' = ScriptStart
    /\ pending' = 0
    /\ in_transaction' = FALSE
    /\ download' = Withdrawn
    /\ last' = Report("save_goals", FALSE)
    /\ UNCHANGED <<medications, active_person, today, goal_inputs, csv_file>>

-----------------------------------------------------------------------------
(* The calendar *)

\* midnight passes
NextDay ==
    /\ ToOrdinal(today) - ToOrdinal(StartDay) < MaxDays
    /\ today' = FromOrdinal(ToOrdinal(today) + 1)
    /\ UNCHANGED <<medications, health_metrics, pending, in_transaction, goals,
                   active_person, goal_inputs, csv_file, download, last>>

-----------------------------------------------------------------------------
(* Tab 3: upload and export *)

RowFields == {"date", "steps", "calories"}

\* str(int), as decimal digits
RECURSIVE ToDecimal(_)
ToDecimal(n) == IF n < 10 THEN <<n>> ELSE Append(ToDecimal(n \div 10), n % 10)

\* int(str), of decimal digits
RECURSIVE FromDecimal(_)
FromDecimal(ds) ==
    IF Len(ds) = 1 THEN ds[1]
    ELSE 10 * FromDecimal(SubSeq(ds, 1, Len(ds) - 1)) + ds[Len(ds)]

\* DataFrame.to_csv(index=False) of SELECT * FROM health_metrics: one line per row
ToCsv(table) ==
    [i \in 1..Len(table) |->
        [id |-> ToDecimal(table[i].id), person |-> table[i].person,
         date |-> table[i].date, steps |-> ToDecimal(table[i].steps),
         calories |-> ToDecimal(table[i].calories)]]

\* the INSERTs of one import loop, in file order, each with the next id
RECURSIVE InsertAll(_, _, _)
InsertAll(table, person, rows) ==
    IF rows = <<>> THEN table
    ELSE InsertAll(Append(table, MetricRow(table, person, Head(rows).date,
                                           Head(rows).steps, Head(rows).calories)),
                   person, Tail(rows))

\* line 618: after the import the same run goes on to the Goals tab, which converts
\* the dates of the active person's rows as its connection sees them, the rows just
\* inserted among them; the run ends there when the conversion raises
GoalsTabRaises(table) == ToDatetimeRaises(LoadMetrics(table, active_person))

\* what an import loop leaves when `done` of the `n` rows went in before one raised:
\* the rows inserted, committed only if none raised.  The first INSERT begins the
\* transaction, so a row that raises leaves it open when an INSERT went before it
\* or when it is its own INSERT that raises (`at_insert`).  The run reports an
\* error when a row raised, and also when the import went through and line 618
\* raised after it
ImportLoop(op, hm, n, done, missing, at_insert) ==
    /\ health_metrics' = InsertAll(hm, active_person, done)
    /\ pending' = IF Len(done) = n THEN 0 ELSE Len(done)
    /\ in_transaction' = (Len(done) # n /\ (Len(done) > 0 \/ at_insert))
    /\ last' = [op |-> op,
                error |-> Len(done) # n \/ GoalsTabRaises(InsertAll(hm, active_person, done)),
                missing |-> missing]

\* what an import leaves when it is refused before its loop
ImportRefused(op, hm, missing) ==
    /\ health_metrics' = hm
    /\ pending' = 0
    /\ in_transaction' = FALSE
    /\ last' = [op |-> op, error |-> TRUE, missing |-> missing]

\* pd.read_csv(parse_dates=["date"]): the date column becomes Timestamps when every
\* text of it parses, and stays the texts it was when one does not
CsvDatesParsed(rows) == ~ ToDatetimeRaises(rows)

\* a date that is still text has no .date(), an empty cell is NaN and int(NaN) raises:
\* all of it before the INSERT
CsvRowFails(rows, r) == ~ CsvDatesParsed(rows) \/ r.steps = <<>> \/ r.calories = <<>>

\* r["date"].date().isoformat() of the parsed date column, int(r["steps"]), int(r["calories"])
CsvRowParsed(r) ==
    [date |-> IsoFormat(ToDatetime(r.date)),
     steps |-> FromDecimal(r.steps), calories |-> FromDecimal(r.calories)]

\* the rows the CSV loop inserts: those before the first one that raises
CsvAccepted(rows) ==
    LET bad == {i \in 1..Len(rows) : CsvRowFails(rows, rows[i])}
        n == IF bad = {} THEN Len(rows) ELSE (CHOOSE i \in bad : \A k \in bad : i <= k) - 1
    IN  [i \in 1..n |-> CsvRowParsed(rows[i])]

\* the button "Import CSV to DB", on the file in the uploader
ImportCSV ==
    /\ ~ DashboardRaises(active_person)
    /\ csv_file.present
    /\ Len(ScriptStart) + Len(csv_file.rows) <= MaxStore
    /\ ImportLoop("import_csv", ScriptStart, Len(csv_file.rows),
                  CsvAccepted(csv_file.rows), {}, FALSE)
    /\ download' = Withdrawn
    /\ goals' = InsertOrIgnoreGoals(goals)
    /\ UNCHANGED <<medications, active_person, today, goal_inputs, csv_file>>

\* the fields some row of the file lacks
MissingFields(file) == {f \in RowFields : \E i \in 1..Len(file) : f \notin DOMAIN file[i]}

\* the columns pd.read_json gives the frame: every key some object has
JsonColumns(file) == UNION {DOMAIN file[i] : i \in 1..Len(file)}

\* a key the object lacks is NaN in its row, and int(NaN) raises
JsonRowFails(r) == "steps" \notin DOMAIN r \/ "calories" \notin DOMAIN r

\* pd.read_json converts the column "date" to Timestamps when every text of it
\* parses (a missing date is NaT), and leaves it as it is when one does not (a
\* missing date is NaN)
JsonDatesConverted(file) ==
    \A i \in 1..Len(file) :
        "date" \in DOMAIN file[i] => ~ Unparseable(file[i].date)

\* str(r["date"])[:10], int(r["steps"]), int(r["calories"])
JsonRowParsed(file, r) ==
    [date |-> IF JsonDatesConverted(file)
              THEN (IF "date" \in DOMAIN r THEN IsoFormat(ToDatetime(r.date)) ELSE NaTText)
              ELSE (IF "date" \in DOMAIN r THEN r.date ELSE NanText),
     steps |-> r.steps, calories |-> r.calories]

\* the rows the JSON loop inserts: those before the first one that raises
JsonAccepted(file) ==
    LET bad == {i \in 1..Len(file) : JsonRowFails(file[i])}
        n == IF bad = {} THEN Len(file) ELSE (CHOOSE i \in bad : \A k \in bad : i <= k) - 1
    IN  [i \in 1..n |-> JsonRowParsed(file, file[i])]

\* the button "Import JSON to DB"
ImportJSON(file) ==
    /\ ~ DashboardRaises(active_person)
    /\ Len(ScriptStart) + Len(file) <= MaxStore
    /\ IF ~ (RowFields \subseteq JsonColumns(file))
       THEN ImportRefused("import_json", ScriptStart, MissingFields(file))
       ELSE ImportLoop("import_json", ScriptStart, Len(file),
                       JsonAccepted(file), MissingFields(file), FALSE)
    /\ download' = Withdrawn
    /\ goals' = InsertOrIgnoreGoals(goals)
    /\ UNCHANGED <<medications, active_person, today, goal_inputs, csv_file>>

\* int(row.findtext(..)) raises on an element that is not there
XmlParseFails(file) ==
    \E i \in 1..Len(file) : "steps" \notin DOMAIN file[i] \/ "calories" \notin DOMAIN file[i]

\* date is NOT NULL: the INSERT of a row without a date raises
XmlRowFails(r) == "date" \notin DOMAIN r

\* the rows the XML loop inserts, the date text as it stands in the element:
\* those before the first one that raises
XmlAccepted(file) ==
    LET bad == {i \in 1..Len(file) : XmlRowFails(file[i])}
        n == IF bad = {} THEN Len(file) ELSE (CHOOSE i \in bad : \A k \in bad : i <= k) - 1
    IN  [i \in 1..n |-> file[i]]

\* the button "Import XML to DB"
ImportXML(file) ==
    /\ ~ DashboardRaises(active_person)
    /\ Len(ScriptStart) + Len(file) <= MaxStore
    /\ IF XmlParseFails(file) \/ file = <<>>
       THEN ImportRefused("import_xml", ScriptStart, MissingFields(file))
       ELSE ImportLoop("import_xml", ScriptStart, Len(file),
                       XmlAccepted(file), MissingFields(file), TRUE)
    /\ download' = Withdrawn
    /\ goals' = InsertOrIgnoreGoals(goals)
    /\ UNCHANGED <<medications, active_person, today, goal_inputs, csv_file>>

\* the button "Export Health Metrics CSV": the run puts a download button on the
\* page that offers the table as CSV; the uploader stays as it is
ExportMetricsCSV ==
    /\ ~ DashboardRaises(active_person)
    /\ health_metrics' = ScriptStart
    /\ pending' = 0
    /\ in_transaction' = FALSE
    /\ goals' = InsertOrIgnoreGoals(goals)
    /\ download' = [download EXCEPT
                       !.offered = [present |-> TRUE, rows |-> ToCsv(ScriptStart)]]
    /\ last' = Report("export_metrics", FALSE)
    /\ UNCHANGED <<medications, active_person, today, goal_inputs, csv_file>>

\* the button "Download Metrics": the browser saves what the button offers, and
\* the script runs again without the export button pressed
DownloadMetrics ==
    /\ ~ DashboardRaises(active_person)
    /\ download.offered.present
    /\ health_metrics' = ScriptStart
    /\ pending' = 0
    /\ in_transaction' = FALSE
    /\ goals' = InsertOrIgnoreGoals(goals)
    /\ download' = [offered |-> NoFile, saved |-> download.offered]
    /\ last' = Report("download_metrics", FALSE)
    /\ UNCHANGED <<medications, active_person, today, goal_inputs, csv_file>>

\* the uploader "CSV file", given a file the user has
UploadCSV(rows) ==
    /\ ~ DashboardRaises(active_person)
    /\ csv_file' = [present |-> TRUE, rows |-> rows]
    /\ Rerun
    /\ last' = Report("upload_csv", FALSE)
    /\ UNCHANGED <<medications, active_person, today, goal_inputs>>

\* the button "View Metrics for Active Person": a run that only reads
ViewMetrics ==
    /\ ~ DashboardRaises(active_person)
    /\ Rerun
    /\ last' = Report("view_metrics", FALSE)
    /\ UNCHANGED <<medications, active_person, today, goal_inputs, csv_file>>

-----------------------------------------------------------------------------
(* What the user types, picks and uploads *)

NameInputs == {<<>>, <<Blank>>, <<"Aspirin">>, <<"Vitamin", Blank>>}
TimeInputs == {<<>>, <<"08:30">>}
PersonInputs == {<<>>, <<Blank, "Mom", Blank>>}
EmailInputs == {<<Blank>>}
SelectInputs == {Self, Mom}
MedIdInputs == 1..(MaxMeds + 1)

DateInputs == {<<2024, 12, 24>>, <<2025, 1, 6>>}
MetricInputs == {<<4000, 2420>>, <<4001, 2421>>}
GoalInputs == {<<DefaultWeeklySteps, DefaultDailyCalories>>, <<0, 0>>, <<35002, 2200>>}

\* a date text that is no date: "2024-13-45"
Malformed == <<2024, 13, 45>>

\* the rows of a JSON or XML file: complete, lacking the date, lacking a number,
\* complete with a date text that is no date
FileRows ==
    {[date |-> StartDay, steps |-> 4000, calories |-> 2420],
     [steps |-> 4000, calories |-> 2420],
     [date |-> StartDay, steps |-> 4000],
     [date |-> Malformed, steps |-> 4000, calories |-> 2420]}

FileInputs == UNION {[1..n -> FileRows] : n \in 1..MaxRows}

\* CSV files written by hand: a good one, and one whose second line has no steps
CsvInputs ==
    {<<[date |-> <<2025, 1, 6>>, steps |-> <<4, 0, 0, 1>>, calories |-> <<2, 4, 2, 1>>]>>,
     <<[date |-> StartDay, steps |-> <<4, 0, 0, 0>>, calories |-> <<2, 4, 2, 0>>],
       [date |-> StartDay, steps |-> <<>>, calories |-> <<2, 4, 2, 0>>]>>}

\* the files the user can put in the uploader: those written by hand and the
\* metrics.csv saved last
Uploadable ==
    CsvInputs \cup (IF download.saved.present THEN {download.saved.rows} ELSE {})

-----------------------------------------------------------------------------
(* Specifications *)

MedicationStep ==
    \/ \E name \in NameInputs, time_str \in TimeInputs, med_person \in PersonInputs,
          caregiver_email \in EmailInputs :
          AddMedication(name, today, time_str, med_person, caregiver_email)
    \/ \E med_id \in MedIdInputs : MarkTaken(med_id)
    \/ ResetTaken

MetricStep ==
    \/ \E date \in DateInputs, v \in MetricInputs, person \in PersonInputs :
          SaveMetrics(date, v[1], v[2], person)
    \/ \E new_person \in PersonInputs : AddPerson(new_person)

GoalStep ==
    \/ \E g \in GoalInputs : EditGoalInputs(g[1], g[2])
    \/ SaveGoals

ImportStep ==
    \/ ImportCSV
    \/ \E file \in FileInputs : ImportJSON(file)
    \/ \E file \in FileInputs : ImportXML(file)
    \/ ExportMetricsCSV
    \/ DownloadMetrics
    \/ \E rows \in Uploadable : UploadCSV(rows)

SidebarStep == \E p \in SelectInputs : SelectPerson(p)

\* runs that do nothing to the tables, or nothing at all
ReadStep == ViewMetrics \/ ScriptFails \/ ScriptRaises

Next ==
    \/ MedicationStep \/ MetricStep \/ GoalStep \/ ImportStep \/ SidebarStep
    \/ ReadStep \/ NextDay

Spec == Init /\ [][Next]_vars

\* the medication manager alone
NextMedications ==
    \/ MedicationStep
    \/ \E new_person \in PersonInputs : AddPerson(new_person)
    \/ SidebarStep

SpecMedications == Init /\ [][NextMedications]_vars

\* metrics entry, goals and the calendar
NextMetrics == MetricStep \/ GoalStep \/ SidebarStep \/ NextDay

SpecMetrics == Init /\ [][NextMetrics]_vars

\* upload and export
NextImport ==
    \/ ImportStep
    \/ \E new_person \in PersonInputs : AddPerson(new_person)
    \/ SidebarStep
    \/ ReadStep

SpecImport == Init /\ [][NextImport]_vars

-----------------------------------------------------------------------------
(* Properties *)

Scopes == {<<>>} \cup SelectInputs \cup {<<"Dad">>}

InScope(scope) ==
    {i \in 1..Len(medications) : scope = <<>> \/ medications[i].person = scope}

TakenInScope(scope) == {i \in InScope(scope) : medications[i].taken = 1}

\* C1: whatever add-medication, mark-taken and reset did, medication_adherence of a
\* scope (a person, or all) is (taken, total, pct): total counts the medication rows
\* in scope, taken those of them that are taken, pct is 100*taken/total, and exactly
\* 0.0 when total is 0; so 0 <= pct <= 100, and another person's rows never count:
\* Self with Aspirin not taken and Vitamin taken has (1, 2, 50.0).
AdherenceContract ==
    \A scope \in Scopes :
        LET a == medication_adherence(scope)
            total == Cardinality(InScope(scope))
            taken == Cardinality(TakenInScope(scope))
        IN  /\ a[1] = taken
            /\ a[2] = total
            /\ a[3].den > 0
            /\ total > 0 => a[3].num * total = 100 * taken * a[3].den
            /\ total = 0 => a[3] = Rat(0, 1)
            /\ 0 <= a[3].num /\ a[3].num <= 100 * a[3].den
            /\ (total = 2 /\ taken = 1) => RatEq(a[3], Rat(50, 1))

\* Self has Aspirin not taken and Vitamin taken, Mom has a row of her own, and
\* adherence(Self) is (1, 2, 50.0)
AdherenceWitness ==
    /\ \E i, j \in InScope(Self) :
          /\ medications[i].name = <<"Aspirin">> /\ medications[i].taken = 0
          /\ medications[j].name = <<"Vitamin">> /\ medications[j].taken = 1
    /\ Cardinality(InScope(Self)) = 2
    /\ InScope(Mom) # {}
    /\ medication_adherence(Self)[1] = 1
    /\ medication_adherence(Self)[2] = 2
    /\ RatEq(medication_adherence(Self)[3], Rat(50, 1))

MedicationTags == {"no_schedule", "set_reminders", "good_adherence"}

\* C7: whatever the store holds, generate_recommendations gives a person exactly
\* one medication message: "no schedule" iff the person has no medication row,
\* "set reminders" iff there are rows and adherence is below 80%, "good adherence"
\* iff there are rows and adherence is at least 80%.
OneMedicationMessage ==
    \A p \in SelectInputs :
        LET recs == generate_recommendations(p).recs
            at == {k \in 1..Len(recs) : recs[k][1] \in MedicationTags}
            total == Cardinality(InScope(p))
            taken == Cardinality(TakenInScope(p))
        IN  /\ Cardinality(at) = 1
            /\ \A k \in at :
                  /\ recs[k][1] = "no_schedule" <=> total = 0
                  /\ recs[k][1] = "set_reminders" <=> (total > 0 /\ 100 * taken < 80 * total)
                  /\ recs[k][1] = "good_adherence" <=> (total > 0 /\ 100 * taken >= 80 * total)

\* C8: Add Medication with the medicine name or the time missing writes nothing
\* and reports an error, so no medication row ever has an empty name.
NoEmptyMedicationName ==
    \A i \in 1..Len(medications) : medications[i].name # <<>>

\* the metric rows of a person dated today-6 or later: the window the program uses
WindowOf(p) ==
    {i \in 1..Len(health_metrics) :
        /\ health_metrics[i].person = p
        /\ health_metrics[i].date # NaTText
        /\ ToOrdinal(health_metrics[i].date) >= ToOrdinal(today) - 6}

\* those of them dated no later than today: the trailing seven days
TrailingOf(p) ==
    {i \in WindowOf(p) : ToOrdinal(health_metrics[i].date) <= ToOrdinal(today)}

HasMetrics(p) == \E i \in 1..Len(health_metrics) : health_metrics[i].person = p

RECURSIVE SumAt(_, _)
SumAt(S, col) ==
    IF S = {} THEN 0
    ELSE LET i == CHOOSE k \in S : TRUE
         IN  health_metrics[i][col] + SumAt(S \ {i}, col)

\* the mean of a column over the rows S, cut to an integer, and 0 over no rows
TruncatedMean(S, col) == IF S = {} THEN 0 ELSE SumAt(S, col) \div Cardinality(S)

Says(p, tag) ==
    LET recs == generate_recommendations(p).recs
    IN  \E k \in 1..Len(recs) : recs[k] = <<tag, p>>

\* C3: the goal-progress ratio shown for the active person is the weekly step sum
\* over the weekly target, clamped into [0,1], and is 0 when the weekly target
\* is 0, whatever the weekly step sum.
GoalProgressClamped ==
    LET w == goal_inputs[1]
        g == GoalProgress(active_person, w)
    IN  g.shown =>
            /\ (w > 0 /\ g.wk_steps < w) => RatEq(g.ratio, Rat(g.wk_steps, w))
            /\ (w > 0 /\ g.wk_steps >= w) => RatEq(g.ratio, Rat(1, 1))
            /\ w = 0 => RatEq(g.ratio, Rat(0, 1))

\* C4, as claimed: with a daily calorie target of 2200 and a 7-day average of 2421
\* the message is "within the expected range", not "exceed the target".
CaloriesAt2421Within ==
    \A p \in SelectInputs :
        (/\ get_goals[2] = 2200
         /\ HasMetrics(p)
         /\ TruncatedMean(WindowOf(p), "calories") = 2421)
        => Says(p, "calories_within") /\ ~ Says(p, "calories_exceed")

\* C4, amended: with a daily calorie target of 2200 a 7-day average of 2420, which
\* is 1.1 x 2200, gives "within the expected range" and not "exceed the target";
\* an average of 2421 gives "exceed the target".
CaloriesAtThreshold ==
    \A p \in SelectInputs :
        (get_goals[2] = 2200 /\ HasMetrics(p)) =>
            /\ TruncatedMean(WindowOf(p), "calories") = 2420
                  => Says(p, "calories_within") /\ ~ Says(p, "calories_exceed")
            /\ TruncatedMean(WindowOf(p), "calories") = 2421
                  => Says(p, "calories_exceed") /\ ~ Says(p, "calories_within")

\* the target is 2200, the active person's two rows in the window average exactly
\* 2420, and the message is "within the expected range"
CaloriesAtThresholdWitness ==
    /\ get_goals[2] = 2200
    /\ HasMetrics(active_person)
    /\ Cardinality(WindowOf(active_person)) = 2
    /\ SumAt(WindowOf(active_person), "calories") = 2420 * Cardinality(WindowOf(active_person))
    /\ Says(active_person, "calories_within")

\* C5, as claimed: for a person with metrics the steps message is "below the weekly
\* target" iff the mean of the steps in the 7-day window is less than
\* 0.8 * (weekly target / 7), and "close to or meeting the step goal" otherwise.
StepsBelowIffMean ==
    \A p \in SelectInputs :
        (HasMetrics(p) /\ WindowOf(p) # {}) =>
            LET below == SumAt(WindowOf(p), "steps") * 35
                             < get_goals[1] * 4 * Cardinality(WindowOf(p))
            IN  /\ Says(p, "steps_below") <=> below
                /\ Says(p, "steps_meeting") <=> ~ below

\* C5, amended: for a person with metrics the steps message is "below the weekly
\* target" iff the mean, cut to an integer, of the steps of the person's rows
\* dated today-6 or later (0 when there is none) is less than
\* 0.8 * (weekly target / 7), and "close to or meeting the step goal" otherwise;
\* target 35000 and mean 4000 give "meeting".
StepsBelowIffTruncatedMean ==
    \A p \in SelectInputs :
        LET below == TruncatedMean(WindowOf(p), "steps") * 35 < get_goals[1] * 4
        IN  /\ HasMetrics(p) =>
                  /\ Says(p, "steps_below") <=> below
                  /\ Says(p, "steps_meeting") <=> ~ below
            /\ ~ HasMetrics(p) => ~ Says(p, "steps_below") /\ ~ Says(p, "steps_meeting")

\* the weekly target is 35000, the steps of the active person's two rows in the
\* window average exactly 4000, the threshold, and the message is "meeting"
StepsAtThresholdWitness ==
    /\ get_goals[1] = 35000
    /\ Cardinality(WindowOf(active_person)) = 2
    /\ SumAt(WindowOf(active_person), "steps") = 4000 * Cardinality(WindowOf(active_person))
    /\ Says(active_person, "steps_meeting")

\* C6: the 7-day averages of a person are taken over exactly the person's rows
\* dated from today-6 through today, and are 0 when there is none: a row dated
\* before today-6 or after today never counts.
AveragesOverTrailingWeek ==
    \A p \in SelectInputs : \A col \in {"steps", "calories"} :
        /\ DashboardAvg(p, col) = TruncatedMean(TrailingOf(p), col)
        /\ Last7Avg(load_metrics(p), col) = TruncatedMean(TrailingOf(p), col)

\* C10: the goals table always holds exactly one row, first (35000, 2200); after
\* Save Goals(w, c) get_goals returns (w, c), and the goal-progress ratio is the
\* one computed from the stored weekly target.
GoalsSingletonDecides ==
    /\ Len(goals) = 1
    /\ goals[1].id = 1
    /\ last.op = "init_db" => get_goals = <<35000, 2200>>
    /\ last.op = "save_goals" => get_goals = goal_inputs
    /\ LET shown == GoalProgress(active_person, goal_inputs[1])
           stored == GoalProgress(active_person, get_goals[1])
       IN  shown.shown => RatEq(shown.ratio, stored.ratio)

\* C2: a JSON or XML import of a file in which some row lacks the date, steps or
\* calories field fails with an error and leaves health_metrics as it was before
\* the import, with no row of the file in it.
ImportAllOrNothing ==
    [][ (last'.op \in {"import_json", "import_xml"} /\ last'.missing # {})
        => (last'.error /\ health_metrics' \in {health_metrics, Committed}) ]_vars

\* C9: importing the CSV export of a store of n metric rows into that store gives
\* 2n rows: the n rows that were there, unchanged, and after them n new rows, the
\* i-th with the date, steps and calories of the i-th exported line and the active
\* person as its person.
CsvRoundTripDoubles ==
    [][ (last'.op = "import_csv" /\ csv_file = [present |-> TRUE, rows |-> ToCsv(health_metrics)])
        => LET n == Len(health_metrics)
           IN  /\ ~ last'.error
               /\ pending' = 0
               /\ in_transaction' = FALSE
               /\ Len(health_metrics') = 2 * n
               /\ SubSeq(health_metrics', 1, n) = health_metrics
               /\ \A i \in 1..n :
                     /\ health_metrics'[n + i].date = health_metrics[i].date
                     /\ health_metrics'[n + i].steps = health_metrics[i].steps
                     /\ health_metrics'[n + i].calories = health_metrics[i].calories
                     /\ health_metrics'[n + i].person = active_person ]_vars

MedicationFields == {"id", "person", "name", "date", "time", "taken", "caregiver_email"}

\* C11: Mark as Taken with id i changes nothing in the store except that the
\* medication row whose id is i, and no other, gets taken = 1; when no medication
\* row has id i the whole store stays as it was, and no failure is reported.
MarkTakenOnlySetsOne ==
    [][ last'.op = "mark_taken" =>
          \A i \in MedIdInputs :
            MarkTaken(i) =>
              /\ ~ last'.error
              /\ health_metrics' = health_metrics
              /\ goals' = goals
              /\ Len(medications') = Len(medications)
              /\ \A k \in 1..Len(medications) :
                    IF medications[k].id = i
                    THEN medications'[k] = [medications[k] EXCEPT !.taken = 1]
                    ELSE medications'[k] = medications[k]
              /\ Cardinality({k \in 1..Len(medications) :
                                 medications'[k] # medications[k]}) <= 1
              /\ (\A k \in 1..Len(medications) : medications[k].id # i)
                    => medications' = medications ]_vars

\* Mark as Taken was the last thing pressed and no row of the store is taken, so
\* the id it was given is one no row has: the two rows, one of them another
\* person's, are what they were, and nothing failed
MarkTakenMissingIdWitness ==
    /\ last.op = "mark_taken"
    /\ ~ last.error
    /\ Len(medications) = 2
    /\ \A k \in 1..2 : medications[k].taken = 0
    /\ medications[2].person # active_person

\* the adherence of every person of Scopes, before a step and after it
AdherenceIn(meds) == [p \in Scopes \ {<<>>} |-> AdherenceOf(meds, p)]

\* C12: the bulk reset for the active person p sets taken = 0 on every medication
\* row of p and leaves every row of every other person, every other field and the
\* number of rows as they were; right after it adherence(p) is (0, total_p, 0.0)
\* and the adherence of every other person is what it was before.
ResetTakenFrame ==
    [][ (last'.op = "reset_taken" /\ ResetTaken) =>
          LET p == active_person
              total_p == Cardinality(InScope(p))
          IN  /\ Len(medications') = Len(medications)
              /\ \A k \in 1..Len(medications) :
                    /\ \A f \in MedicationFields \ {"taken"} :
                          medications'[k][f] = medications[k][f]
                    /\ medications[k].person = p => medications'[k].taken = 0
                    /\ medications[k].person # p => medications'[k] = medications[k]
              /\ LET a == AdherenceOf(medications', p)
                 IN  a[1] = 0 /\ a[2] = total_p /\ RatEq(a[3], Rat(0, 1))
              /\ \A q \in Scopes \ {<<>>, p} :
                    AdherenceIn(medications')[q] = AdherenceIn(medications)[q]
              /\ health_metrics' = health_metrics
              /\ goals' = goals
              /\ active_person' = p ]_vars

\* the reset was the last thing pressed: the active person's two rows are not
\* taken and give (0, 2, 0.0), the other person's row is still taken and gives
\* (1, 1, 100.0)
ResetTakenFrameWitness ==
    /\ last.op = "reset_taken"
    /\ Cardinality(InScope(active_person)) = 2
    /\ TakenInScope(active_person) = {}
    /\ medication_adherence(active_person)[1] = 0
    /\ medication_adherence(active_person)[2] = 2
    /\ RatEq(medication_adherence(active_person)[3], Rat(0, 1))
    /\ \E q \in SelectInputs \ {active_person} :
          /\ Cardinality(TakenInScope(q)) = 1
          /\ medication_adherence(q)[1] = 1
          /\ medication_adherence(q)[2] = 1
          /\ RatEq(medication_adherence(q)[3], Rat(100, 1))

StepsTags == {"steps_below", "steps_meeting"}
CaloriesTags == {"calories_exceed", "calories_within"}

\* C13: whatever the store holds, for every person generate_recommendations returns
\* its messages in the order steps, calories, medication: exactly three when the
\* person has at least one metric row, and exactly one, the medication message,
\* when the person has none; the list is never empty and the "Not enough data yet"
\* message is never in it.
RecommendationsOrderAndCount ==
    \A p \in Scopes \ {<<>>} :
        LET result == generate_recommendations(p)
            recs == result.recs
        IN  /\ ~ result.raises
            /\ recs # <<>>
            /\ \A k \in 1..Len(recs) : recs[k][1] # "not_enough_data"
            /\ HasMetrics(p) =>
                  /\ Len(recs) = 3
                  /\ recs[1][1] \in StepsTags
                  /\ recs[2][1] \in CaloriesTags
                  /\ recs[3][1] \in MedicationTags
            /\ ~ HasMetrics(p) =>
                  /\ Len(recs) = 1
                  /\ recs[1][1] \in MedicationTags

====
